---- MODULE Spec2Model ----
(***************************************************************************)
(* Model of src/task2.cpp: the streaming codec loop of processFile and the *)
(* worker pool of processFiles.                                            *)
(*                                                                         *)
(* zlib is an external library.  Its z_stream is modelled as a small state *)
(* machine over a toy stream format that keeps the properties of the real  *)
(* one that the program depends on:                                        *)
(*   stream  ::=  HDR (LIT byte)* END adler                                *)
(* deflate keeps the most recent MinLookahead input bytes in its window    *)
(* until it is called with Z_FINISH, and only Z_FINISH emits the trailer;  *)
(* inflate parses the stream, checks the trailer and reports Z_STREAM_END, *)
(* Z_DATA_ERROR or Z_BUF_ERROR as zlib does.                               *)
(***************************************************************************)
EXTENDS Integers, Sequences, FiniteSets, TLC

\* ------------------------------------------------------------------ bounds
MaxThreads == 2          \* largest numThreads tried
MaxTasks == 2            \* longest task list tried
BufSize == 2             \* size of inBuffer / outBuffer (1 MiB in the source)
ByteMax == 2             \* bytes are 0..ByteMax (0..255 in the source)
MaxLen == 4              \* longest source file of the codec specification
MinLookahead == 1        \* input bytes deflate holds back without a flush

\* --------------------------------------------------------- zlib's constants
Z_DEFAULT_COMPRESSION == -1
Z_BEST_COMPRESSION == 9
Z_NO_FLUSH == "Z_NO_FLUSH"
Z_FINISH == "Z_FINISH"
Z_OK == "Z_OK"
Z_STREAM_END == "Z_STREAM_END"
Z_BUF_ERROR == "Z_BUF_ERROR"
Z_DATA_ERROR == "Z_DATA_ERROR"
Z_STREAM_ERROR == "Z_STREAM_ERROR"

\* the marker bytes of the modelled stream format
END == 0
LIT == 1
HDR == 2

Byte == 0..ByteMax
Min(a, b) == IF a < b THEN a ELSE b

RECURSIVE SeqsUpTo(_, _)
SeqsUpTo(S, n) ==
    IF n = 0 THEN {<<>>}
    ELSE LET shorter == SeqsUpTo(S, n - 1)
         IN  shorter \cup {Append(s, x) : s \in {t \in shorter : Len(t) = n - 1}, x \in S}

\* ------------------------------------------------------------- z_stream
\* z_stream zs = {0}: no state allocated
ZNull ==
    [mode |-> "null", st |-> "NONE", next_in |-> <<>>,
     window |-> <<>>, pending |-> <<>>, adler |-> 0]

\* the levels deflateInit accepts
ValidLevel(level) ==
    level = Z_DEFAULT_COMPRESSION \/ level \in 0..Z_BEST_COMPRESSION

\* deflateInit(&zs, level): its return value is not looked at; on an invalid
\* level it returns Z_STREAM_ERROR and leaves zs without a state
deflateInit(level) ==
    IF ValidLevel(level)
    THEN [ZNull EXCEPT !.mode = "deflate", !.st = "INIT"]
    ELSE ZNull

\* inflateInit(&zs)
inflateInit == [ZNull EXCEPT !.mode = "inflate", !.st = "HEAD"]

Adler(a, b) == (a + b) % (ByteMax + 1)

\* how many window bytes deflate keeps back while no flush is requested
HoldBack(flush) == IF flush = Z_FINISH THEN 0 ELSE MinLookahead

\* one call of deflate: move pending output to the output buffer while there
\* is room, emit the header, absorb input behind the window, and on Z_FINISH
\* flush the window and emit the trailer
RECURSIVE DeflateLoop(_, _, _, _)
DeflateLoop(s, out, room, flush) ==
    IF s.pending # <<>> THEN
        IF room = 0 THEN [zs |-> s, out |-> out]
        ELSE DeflateLoop([s EXCEPT !.pending = Tail(@)],
                         Append(out, Head(s.pending)), room - 1, flush)
    ELSE IF s.st = "INIT" THEN
        DeflateLoop([s EXCEPT !.st = "BUSY", !.pending = <<HDR>>], out, room, flush)
    ELSE IF s.st = "BUSY" /\ Len(s.window) > HoldBack(flush) THEN
        DeflateLoop([s EXCEPT !.window = Tail(@),
                              !.pending = <<LIT, Head(s.window)>>],
                    out, room, flush)
    ELSE IF s.st = "BUSY" /\ s.next_in # <<>> THEN
        DeflateLoop([s EXCEPT !.next_in = Tail(@),
                              !.window = Append(@, Head(s.next_in)),
                              !.adler = Adler(@, Head(s.next_in))],
                    out, room, flush)
    ELSE IF s.st = "BUSY" /\ flush = Z_FINISH THEN
        DeflateLoop([s EXCEPT !.st = "FINISH", !.pending = <<END, s.adler>>],
                    out, room, flush)
    ELSE [zs |-> s, out |-> out]

\* deflate(&zs, flush) with avail_out = room
deflate(zs, flush, room) ==
    IF zs.mode # "deflate"
    THEN [zs |-> zs, out |-> <<>>, ret |-> Z_STREAM_ERROR]
    ELSE LET r == DeflateLoop(zs, <<>>, room, flush)
         IN  [zs |-> r.zs, out |-> r.out,
              ret |-> IF flush = Z_FINISH /\ r.zs.st = "FINISH" /\ r.zs.pending = <<>>
                        THEN Z_STREAM_END
                      ELSE IF r.zs = zs /\ r.out = <<>> THEN Z_BUF_ERROR
                      ELSE Z_OK]

\* one call of inflate: parse input bytes until the input is used up, the
\* output buffer is full, the stream has ended or it is found corrupt
RECURSIVE InflateLoop(_, _, _)
InflateLoop(s, out, room) ==
    IF s.st \in {"DONE", "BAD"} \/ s.next_in = <<>> THEN [zs |-> s, out |-> out]
    ELSE LET b == Head(s.next_in)
             eat == [s EXCEPT !.next_in = Tail(@)]
         IN  IF s.st = "HEAD" THEN
                 InflateLoop([eat EXCEPT !.st = IF b = HDR THEN "TYPE" ELSE "BAD"],
                             out, room)
             ELSE IF s.st = "TYPE" THEN
                 InflateLoop([eat EXCEPT !.st = IF b = LIT THEN "LITERAL"
                                                ELSE IF b = END THEN "CHECK"
                                                ELSE "BAD"],
                             out, room)
             ELSE IF s.st = "LITERAL" THEN
                 IF room = 0 THEN [zs |-> s, out |-> out]
                 ELSE InflateLoop([eat EXCEPT !.st = "TYPE", !.adler = Adler(@, b)],
                                  Append(out, b), room - 1)
             ELSE \* "CHECK"
                 InflateLoop([eat EXCEPT !.st = IF b = s.adler THEN "DONE" ELSE "BAD"],
                             out, room)

\* inflate(&zs, Z_NO_FLUSH) with avail_out = room
inflate(zs, room) ==
    IF zs.mode # "inflate"
    THEN [zs |-> zs, out |-> <<>>, ret |-> Z_STREAM_ERROR]
    ELSE LET r == InflateLoop(zs, <<>>, room)
         IN  [zs |-> r.zs, out |-> r.out,
              ret |-> IF r.zs.st = "DONE" THEN Z_STREAM_END
                      ELSE IF r.zs.st = "BAD" THEN Z_DATA_ERROR
                      ELSE IF r.zs = zs /\ r.out = <<>> THEN Z_BUF_ERROR
                      ELSE Z_OK]

\* ------------------------------------------------------------ the program
Threads == 1..MaxThreads
NoOwner == 0
Paths == {"in", "out"} \X (1..MaxTasks)
NoFile == [exists |-> FALSE, data |-> <<>>]
NoId == <<"none", 0>>

\* the per-call locals of processFile, before the call
NoCall ==
    [taskIndex |-> 0, pos |-> 0, eof |-> FALSE, bytesRead |-> 0, zs |-> ZNull,
     outBuffer |-> <<>>, kind |-> "none", id |-> <<NoId>>]

VARIABLES
    tasks,        \* const vector<CompressionTask>& tasks
    numThreads,   \* int numThreads
    bufSize,      \* inBuffer.size() and outBuffer.size()
    fs,           \* the files: path -> [exists, data]
    writable,     \* the paths an ofstream can be opened on
    mainpc,       \* processFiles' own position: "spawn", "join", "returned"
    mainI,        \* the loop index of the spawn loop and of the join loop
    currentTask,  \* size_t currentTask
    taskMutex,    \* mutex taskMutex: its owner, or NoOwner
    mtx,          \* mutex mtx: its owner, or NoOwner
    pc,           \* each worker thread's position
    loc,          \* each worker's locals (taskIndex and those of processFile)
    sink,         \* what has been written to cout / cerr, in order
    events        \* for each task index, what was done for it, in order

vars == <<tasks, numThreads, bufSize, fs, writable, mainpc, mainI, currentTask,
          taskMutex, mtx, pc, loc, sink, events>>

Ev(name, w, a, b) == [ev |-> name, w |-> w, a |-> a, b |-> b]

Record(ix, e) == [events EXCEPT ![ix + 1] = Append(@, e)]

Task(w) == tasks[loc[w].taskIndex + 1]

\* --------------------------------------------------------- processFiles
\* threads.emplace_back(worker) for i < numThreads
Spawn ==
    /\ mainpc = "spawn"
    /\ mainI < numThreads
    /\ pc' = [pc EXCEPT ![mainI + 1] = "lock_task"]
    /\ mainI' = mainI + 1
    /\ UNCHANGED <<tasks, numThreads, bufSize, fs, writable, mainpc, currentTask,
                   taskMutex, mtx, loc, sink, events>>

\* the spawn loop ends; threads.size() workers were created
StartJoin ==
    /\ mainpc = "spawn"
    /\ ~(mainI < numThreads)
    /\ mainpc' = "join"
    /\ mainI' = 0
    /\ UNCHANGED <<tasks, numThreads, bufSize, fs, writable, currentTask,
                   taskMutex, mtx, pc, loc, sink, events>>

NumSpawned == IF numThreads > 0 THEN numThreads ELSE 0

\* a join that does not wait (a detached thread)
JoinableDetached(p) == TRUE

\* t.join() returns once thread t has finished
Joinable(p) == p = "done"

Join ==
    /\ mainpc = "join"
    /\ mainI < NumSpawned
    /\ Joinable(pc[mainI + 1])
    /\ mainI' = mainI + 1
    /\ UNCHANGED <<tasks, numThreads, bufSize, fs, writable, mainpc, currentTask,
                   taskMutex, mtx, pc, loc, sink, events>>

Return ==
    /\ mainpc = "join"
    /\ ~(mainI < NumSpawned)
    /\ mainpc' = "returned"
    /\ UNCHANGED <<tasks, numThreads, bufSize, fs, writable, mainI, currentTask,
                   taskMutex, mtx, pc, loc, sink, events>>

\* ----------------------------------------------------------- the worker
\* a claim section that does not exclude other workers
TaskMutexFreeUnguarded(m) == TRUE

\* lock_guard<mutex> lock(taskMutex) can be constructed
TaskMutexFree(m) == m = NoOwner

LockTask(w) ==
    /\ pc[w] = "lock_task"
    /\ TaskMutexFree(taskMutex)
    /\ taskMutex' = w
    /\ pc' = [pc EXCEPT ![w] = "check"]
    /\ UNCHANGED <<tasks, numThreads, bufSize, fs, writable, mainpc, mainI, currentTask,
                   mtx, loc, sink, events>>

\* a worker that leaves its loop with taskMutex still locked
CheckTaskHolding(w) ==
    /\ pc[w] = "check"
    /\ IF currentTask >= Len(tasks)
       THEN /\ pc' = [pc EXCEPT ![w] = "done"]
            /\ UNCHANGED <<taskMutex, loc>>
       ELSE /\ pc' = [pc EXCEPT ![w] = "claim"]
            /\ loc' = [loc EXCEPT ![w] = [NoCall EXCEPT !.taskIndex = currentTask]]
            /\ UNCHANGED taskMutex
    /\ UNCHANGED <<tasks, numThreads, bufSize, fs, writable, mainpc, mainI, currentTask,
                   mtx, sink, events>>

\* if (currentTask >= tasks.size()) return;  then the read of currentTask++
CheckTask(w) ==
    /\ pc[w] = "check"
    /\ IF currentTask >= Len(tasks)
       THEN /\ pc' = [pc EXCEPT ![w] = "done"]
            /\ taskMutex' = NoOwner
            /\ UNCHANGED loc
       ELSE /\ pc' = [pc EXCEPT ![w] = "claim"]
            /\ loc' = [loc EXCEPT ![w] = [NoCall EXCEPT !.taskIndex = currentTask]]
            /\ UNCHANGED taskMutex
    /\ UNCHANGED <<tasks, numThreads, bufSize, fs, writable, mainpc, mainI, currentTask,
                   mtx, sink, events>>

\* the call of processFile made inside the locked scope
ClaimTaskLocked(w) ==
    /\ pc[w] = "claim"
    /\ currentTask' = loc[w].taskIndex + 1
    /\ pc' = [pc EXCEPT ![w] = "open_in"]
    /\ events' = Record(loc[w].taskIndex, Ev("call", w, "-", "-"))
    /\ UNCHANGED <<tasks, numThreads, bufSize, fs, writable, mainpc, mainI,
                   taskMutex, mtx, loc, sink>>

\* the write of currentTask++, the end of the locked scope, and the call
\* processFile(task.inputPath, ...)
ClaimTask(w) ==
    /\ pc[w] = "claim"
    /\ currentTask' = loc[w].taskIndex + 1
    /\ taskMutex' = NoOwner
    /\ pc' = [pc EXCEPT ![w] = "open_in"]
    /\ events' = Record(loc[w].taskIndex, Ev("call", w, "-", "-"))
    /\ UNCHANGED <<tasks, numThreads, bufSize, fs, writable, mainpc, mainI,
                   mtx, loc, sink>>

\* ---------------------------------------------------------- processFile
Fail(w, kind, id) ==
    /\ loc' = [loc EXCEPT ![w].kind = kind, ![w].id = <<id>>]
    /\ pc' = [pc EXCEPT ![w] = "lock_log"]

\* a processFile that goes on to open the destination although the source
\* did not open
OpenInIgnoringFailure(w) ==
    /\ pc[w] = "open_in"
    /\ pc' = [pc EXCEPT ![w] = "open_out"]
    /\ events' = Record(loc[w].taskIndex, Ev("open_in", w, IF fs[Task(w).inputPath].exists THEN "ok" ELSE "fail", "-"))
    /\ UNCHANGED <<tasks, numThreads, bufSize, fs, writable, mainpc, mainI, currentTask,
                   taskMutex, mtx, loc, sink>>

\* ifstream inFile(inputPath, ios::binary); if (!inFile) ...
OpenIn(w) ==
    /\ pc[w] = "open_in"
    /\ IF ~fs[Task(w).inputPath].exists
       THEN Fail(w, "in_err", Task(w).inputPath)
       ELSE pc' = [pc EXCEPT ![w] = "open_out"] /\ UNCHANGED loc
    /\ events' = Record(loc[w].taskIndex, Ev("open_in", w, IF fs[Task(w).inputPath].exists THEN "ok" ELSE "fail", "-"))
    /\ UNCHANGED <<tasks, numThreads, bufSize, fs, writable, mainpc, mainI, currentTask,
                   taskMutex, mtx, sink>>

\* ofstream outFile(outputPath, ios::binary); if (!outFile) ...
OpenOut(w) ==
    /\ pc[w] = "open_out"
    /\ IF Task(w).outputPath \notin writable
       THEN Fail(w, "out_err", Task(w).outputPath) /\ UNCHANGED fs
       ELSE /\ fs' = [fs EXCEPT ![Task(w).outputPath] = [exists |-> TRUE, data |-> <<>>]]
            /\ pc' = [pc EXCEPT ![w] = "init"]
            /\ UNCHANGED loc
    /\ events' = Record(loc[w].taskIndex, Ev("open_out", w, IF Task(w).outputPath \in writable THEN "ok" ELSE "fail", "-"))
    /\ UNCHANGED <<tasks, numThreads, bufSize, writable, mainpc, mainI, currentTask,
                   taskMutex, mtx, sink>>

\* z_stream zs = {0}; deflateInit(&zs, level) or inflateInit(&zs)
CodecInit(w) ==
    /\ pc[w] = "init"
    /\ loc' = [loc EXCEPT ![w].zs = IF Task(w).compress
                                      THEN deflateInit(Task(w).level)
                                      ELSE inflateInit]
    /\ pc' = [pc EXCEPT ![w] = "read"]
    /\ events' = Record(loc[w].taskIndex,
                        Ev("init", w, "-",
                           IF Task(w).compress /\ ~ValidLevel(Task(w).level)
                           THEN Z_STREAM_ERROR ELSE Z_OK))
    /\ UNCHANGED <<tasks, numThreads, bufSize, fs, writable, mainpc, mainI, currentTask,
                   taskMutex, mtx, sink>>

SubSeqFrom(s, pos, n) == SubSeq(s, pos + 1, pos + n)

\* inFile.read(inBuffer.data(), inBuffer.size()): gcount() bytes arrive; the
\* stream's eofbit and failbit are set when fewer than asked for were there,
\* and a stream that has failed reads nothing more
Gcount(eof, len, pos) == IF eof THEN 0 ELSE Min(bufSize, len - pos)

EofAfterRead(eof, n) == eof \/ n < bufSize

\* inFile.read(...); bytesRead = gcount(); if (bytesRead == 0) break;
\* zs.next_in = inBuffer; zs.avail_in = bytesRead
ReadChunk(w) ==
    /\ pc[w] = "read"
    /\ LET data == fs[Task(w).inputPath].data
           n == Gcount(loc[w].eof, Len(data), loc[w].pos)
       IN  /\ loc' = [loc EXCEPT ![w].bytesRead = n,
                                 ![w].eof = EofAfterRead(@, n),
                                 ![w].pos = @ + n,
                                 ![w].zs.next_in =
                                     IF n = 0 THEN @ ELSE SubSeqFrom(data, loc[w].pos, n)]
           /\ pc' = [pc EXCEPT ![w] = IF n = 0 THEN "end" ELSE "transform"]
           /\ events' = Record(loc[w].taskIndex,
                               Ev("read", w, IF n = 0 THEN "none" ELSE "chunk", "-"))
    /\ UNCHANGED <<tasks, numThreads, bufSize, fs, writable, mainpc, mainI, currentTask,
                   taskMutex, mtx, sink>>

\* the flush argument: inFile.eof() ? Z_FINISH : Z_NO_FLUSH
FlushFor(eof) == IF eof THEN Z_FINISH ELSE Z_NO_FLUSH

\* the return values that end the job: if (ret == Z_STREAM_ERROR)
IsFatal(ret) == ret = Z_STREAM_ERROR

\* a drain loop that also goes round again after a call that gave nothing
LoopAgainOnEmpty(r) == bufSize - Len(r.out) = 0 \/ Len(r.out) = 0

\* while (zs.avail_out == 0), for the result r of the transform's call
LoopAgain(r) == bufSize - Len(r.out) = 0

\* the body of the do-while: one call of the transform on a fresh output
\* buffer, the error check, outFile.write, and the test (zs.avail_out == 0)
Transform(w) ==
    /\ pc[w] = "transform"
    /\ LET flush == IF Task(w).compress THEN FlushFor(loc[w].eof) ELSE Z_NO_FLUSH
           r == IF Task(w).compress
                THEN deflate(loc[w].zs, flush, bufSize)
                ELSE inflate(loc[w].zs, bufSize)
           out == Task(w).outputPath
       IN  /\ events' = Record(loc[w].taskIndex, Ev("transform", w, flush, r.ret))
           /\ IF IsFatal(r.ret)
              THEN /\ loc' = [loc EXCEPT ![w].zs = r.zs, ![w].outBuffer = r.out,
                                         ![w].kind = "codec_err", ![w].id = <<NoId>>]
                   /\ pc' = [pc EXCEPT ![w] = "lock_log"]
                   /\ UNCHANGED fs
              ELSE /\ loc' = [loc EXCEPT ![w].zs = r.zs, ![w].outBuffer = r.out]
                   /\ fs' = [fs EXCEPT ![out].data = @ \o r.out]
                   /\ pc' = [pc EXCEPT ![w] = IF LoopAgain(r)
                                               THEN "transform" ELSE "read"]
    /\ UNCHANGED <<tasks, numThreads, bufSize, writable, mainpc, mainI, currentTask,
                   taskMutex, mtx, sink>>

\* the end of the job without deflateEnd / inflateEnd
CodecEndLeaky(w) ==
    /\ pc[w] = "end"
    /\ loc' = [loc EXCEPT ![w].kind = "ok",
                          ![w].id = <<Task(w).inputPath, Task(w).outputPath>>]
    /\ pc' = [pc EXCEPT ![w] = "lock_log"]
    /\ events' = Record(loc[w].taskIndex, Ev("end", w, "-", "-"))
    /\ UNCHANGED <<tasks, numThreads, bufSize, fs, writable, mainpc, mainI, currentTask,
                   taskMutex, mtx, sink>>

\* deflateEnd(&zs) or inflateEnd(&zs), then the success line is due
CodecEnd(w) ==
    /\ pc[w] = "end"
    /\ loc' = [loc EXCEPT ![w].zs = ZNull, ![w].kind = "ok",
                          ![w].id = <<Task(w).inputPath, Task(w).outputPath>>]
    /\ pc' = [pc EXCEPT ![w] = "lock_log"]
    /\ events' = Record(loc[w].taskIndex, Ev("end", w, "-", "-"))
    /\ UNCHANGED <<tasks, numThreads, bufSize, fs, writable, mainpc, mainI, currentTask,
                   taskMutex, mtx, sink>>

\* a diagnostic written without waiting for the log lock
MtxFreeUnguarded(m) == TRUE

\* lock_guard<mutex> lock(mtx) can be constructed
MtxFree(m) == m = NoOwner

LockLog(w) ==
    /\ pc[w] = "lock_log"
    /\ MtxFree(mtx)
    /\ mtx' = w
    /\ pc' = [pc EXCEPT ![w] = "write_head"]
    /\ UNCHANGED <<tasks, numThreads, bufSize, fs, writable, mainpc, mainI, currentTask,
                   taskMutex, loc, sink, events>>

Fragment(w, part) ==
    [w |-> w, job |-> loc[w].taskIndex, kind |-> loc[w].kind, id |-> loc[w].id,
     part |-> part]

\* cerr << "Error ..." / cout << "Processed: " << inputPath ...: the text
WriteHead(w) ==
    /\ pc[w] = "write_head"
    /\ sink' = Append(sink, Fragment(w, "head"))
    /\ pc' = [pc EXCEPT ![w] = "write_tail"]
    /\ UNCHANGED <<tasks, numThreads, bufSize, fs, writable, mainpc, mainI, currentTask,
                   taskMutex, mtx, loc, events>>

\* ... << endl; then the return, which destroys the lock_guard
WriteTail(w) ==
    /\ pc[w] = "write_tail"
    /\ sink' = Append(sink, Fragment(w, "tail"))
    /\ mtx' = NoOwner
    /\ pc' = [pc EXCEPT ![w] = "lock_task"]
    /\ events' = Record(loc[w].taskIndex, Ev("line", w, loc[w].kind, "-"))
    /\ UNCHANGED <<tasks, numThreads, bufSize, fs, writable, mainpc, mainI, currentTask,
                   taskMutex, loc>>

Next ==
    \/ Spawn
    \/ StartJoin
    \/ Join
    \/ Return
    \/ \E w \in Threads : LockTask(w)
    \/ \E w \in Threads : CheckTask(w)
    \/ \E w \in Threads : ClaimTask(w)
    \/ \E w \in Threads : OpenIn(w)
    \/ \E w \in Threads : OpenOut(w)
    \/ \E w \in Threads : CodecInit(w)
    \/ \E w \in Threads : ReadChunk(w)
    \/ \E w \in Threads : Transform(w)
    \/ \E w \in Threads : CodecEnd(w)
    \/ \E w \in Threads : LockLog(w)
    \/ \E w \in Threads : WriteHead(w)
    \/ \E w \in Threads : WriteTail(w)

\* ------------------------------------------------------- initial states
\* the levels tried: the default, and one deflateInit rejects
Levels == {Z_DEFAULT_COMPRESSION, Z_BEST_COMPRESSION + 1}

\* a task as main builds it: {in, out, true, compressionLevel} or
\* {in, out, false} (level value-initialised)
JobsAt(k) ==
    {[inputPath |-> <<"in", k>>, outputPath |-> <<"out", k>>,
      compress |-> TRUE, level |-> l] : l \in Levels}
    \cup {[inputPath |-> <<"in", k>>, outputPath |-> <<"out", k>>,
           compress |-> FALSE, level |-> 0]}

TaskLists ==
    UNION {{t \in [1..m -> UNION {JobsAt(k) : k \in 1..m}] :
                \A k \in 1..m : t[k] \in JobsAt(k)} : m \in 0..MaxTasks}

\* source files of the pool specification: empty, shorter than the buffer,
\* and exactly one buffer long
PoolContents == {<<>>, <<HDR>>, <<LIT, HDR>>}

InitCommon ==
    /\ mainpc = "spawn"
    /\ mainI = 0
    /\ currentTask = 0
    /\ taskMutex = NoOwner
    /\ mtx = NoOwner
    /\ pc = [w \in Threads |-> "idle"]
    /\ loc = [w \in Threads |-> NoCall]
    /\ sink = <<>>
    /\ events = [k \in 1..Len(tasks) |-> <<>>]

\* processFiles(tasks, numThreads) on any short task list and thread count,
\* over sources that exist or not and destinations that open or not.  A job
\* whose source is missing never opens its destination and one whose
\* destination does not open never reads its source, so those are not varied.
Init ==
    /\ tasks \in TaskLists
    /\ bufSize = BufSize
    /\ numThreads \in (-1)..MaxThreads
    /\ writable \in SUBSET {<<"out", k>> : k \in 1..Len(tasks)}
    /\ \E present \in SUBSET {<<"in", k>> : k \in 1..Len(tasks)} :
         \E content \in [present -> PoolContents] :
            /\ \A k \in 1..Len(tasks) :
                  \/ <<"in", k>> \in present /\ <<"out", k>> \in writable
                  \/ <<"in", k>> \in present /\ content[<<"in", k>>] = <<>>
                  \/ <<"in", k>> \notin present /\ <<"out", k>> \in writable
            /\ fs = [p \in Paths |-> IF p \in present
                                      THEN [exists |-> TRUE, data |-> content[p]]
                                      ELSE NoFile]
    /\ InitCommon

\* the four ways a job can end, one diagnostic line each
Outcomes == {"in_err", "out_err", "codec_err", "ok"}

\* processFiles(tasks, numThreads) on any short list of compress jobs, each
\* set up to end in a chosen way: its source missing, its destination not
\* writable, its level rejected by deflateInit, or nothing wrong
InitPool ==
    /\ numThreads \in (-1)..MaxThreads
    /\ bufSize = BufSize
    /\ \E m \in 0..MaxTasks : \E outcome \in [1..m -> Outcomes] :
         /\ tasks = [k \in 1..m |->
                        [inputPath |-> <<"in", k>>, outputPath |-> <<"out", k>>,
                         compress |-> TRUE,
                         level |-> IF outcome[k] = "codec_err"
                                   THEN Z_BEST_COMPRESSION + 1
                                   ELSE Z_DEFAULT_COMPRESSION]]
         /\ writable = {<<"out", k>> : k \in {j \in 1..m : outcome[j] # "out_err"}}
         /\ fs = [p \in Paths |->
                    IF p[1] = "in" /\ p[2] <= m /\ outcome[p[2]] # "in_err"
                    THEN [exists |-> TRUE, data |-> <<HDR>>]
                    ELSE NoFile]
    /\ InitCommon

SpecPool == InitPool /\ [][Next]_vars

\* the pool on jobs whose processFile call is short: the source is missing,
\* or nothing is wrong
InitPoolShort ==
    /\ InitPool
    /\ \A k \in 1..Len(tasks) :
          /\ tasks[k].level = Z_DEFAULT_COMPRESSION
          /\ tasks[k].outputPath \in writable

\* the pool with a scheduler that lets a thread that can run take its step
SpecPoolFair == InitPoolShort /\ [][Next]_vars /\ WF_vars(Next)

\* one worker compresses a file of any content up to MaxLen bytes and then
\* decompresses the result: processFile(in1, out1, true, level) followed by
\* processFile(out1, out2, false)
InitCodec ==
    /\ \E l \in Levels :
         tasks = << [inputPath |-> <<"in", 1>>, outputPath |-> <<"out", 1>>,
                     compress |-> TRUE, level |-> l],
                    [inputPath |-> <<"out", 1>>, outputPath |-> <<"out", 2>>,
                     compress |-> FALSE, level |-> 0] >>
    /\ numThreads = 1
    /\ bufSize = BufSize
    /\ writable = {<<"out", 1>>, <<"out", 2>>}
    /\ \E B \in SeqsUpTo(Byte, MaxLen) :
         fs = [p \in Paths |-> IF p = <<"in", 1>>
                                 THEN [exists |-> TRUE, data |-> B]
                                 ELSE NoFile]
    /\ InitCommon

SpecCodec == InitCodec /\ [][Next]_vars

\* ----------------------------------------------------- main's task lists
\* a path is a directory and a file name; a file name is its dot-separated
\* parts, so that <<"f", "gz">> is f.gz
Dirs == {"a", "b"}
FileNames == {<<"f">>, <<"f", "gz">>}

\* outputPath + "/" + name
JoinPath(dir, name) == [dir |-> dir, file |-> name]

\* path::stem(): the file name without its last extension
Stem(name) == IF Len(name) > 1 THEN SubSeq(name, 1, Len(name) - 1) ELSE name

\* path::extension(): the last extension, if there is one
Extension(name) == IF Len(name) > 1 THEN name[Len(name)] ELSE ""

\* case 1: {in, outputPath + "/" + filename + ".gz", true, compressionLevel}
CompressTask(src, outDir, level) ==
    [inputPath |-> src, outputPath |-> JoinPath(outDir, Append(src.file, "gz")),
     compress |-> TRUE, level |-> level]

\* case 2: {in, outputPath + "/" + stem, false}
DecompressTask(src, outDir) ==
    [inputPath |-> src, outputPath |-> JoinPath(outDir, Stem(src.file)),
     compress |-> FALSE, level |-> 0]

\* every order in which directory_iterator may list the entries
Listings(S) ==
    {t \in [1..Cardinality(S) -> S] : \A i, j \in 1..Cardinality(S) : t[i] = t[j] => i = j}

\* the task list of menu case 1 (choice = 1) or 2 for the input path given:
\* a directory with the regular files `entries`, or a single file
MenuTasks(choice, inDir, isDir, entries, single, outDir, level) ==
    IF choice = 1
    THEN IF isDir
         THEN {[i \in DOMAIN l |-> CompressTask(JoinPath(inDir, l[i]), outDir, level)] :
                  l \in Listings(entries)}
         ELSE {<<CompressTask(JoinPath(inDir, single), outDir, level)>>}
    ELSE IF isDir
         THEN {[i \in DOMAIN l |-> DecompressTask(JoinPath(inDir, l[i]), outDir)] :
                  l \in Listings({e \in entries : Extension(e) = "gz"})}
         ELSE {<<DecompressTask(JoinPath(inDir, single), outDir)>>}

MenuPaths ==
    {JoinPath(d, n) : d \in Dirs,
                      n \in FileNames \cup {Append(f, "gz") : f \in FileNames}}

\* menu choice 1 or 2 with any input path, output directory and thread count
\* the user may type, over any set of files in the input directory
InitMenu ==
    /\ \E choice \in {1, 2}, inDir \in Dirs, outDir \in Dirs, isDir \in BOOLEAN,
          entries \in SUBSET FileNames, single \in FileNames :
         /\ isDir \/ entries \in {{}, {single}}
         /\ tasks \in MenuTasks(choice, inDir, isDir, entries, single, outDir,
                                 Z_DEFAULT_COMPRESSION)
         /\ fs = [p \in MenuPaths |->
                    IF p.dir = inDir /\ p.file \in entries
                    THEN [exists |-> TRUE, data |-> <<HDR>>]
                    ELSE NoFile]
    /\ numThreads \in 1..MaxThreads
    /\ bufSize = BufSize
    /\ writable = MenuPaths
    /\ InitCommon

SpecMenu == InitMenu /\ [][Next]_vars

\* the working-buffer sizes tried: below, at and above BufSize
BufSizes == 1..(BufSize + 1)

\* one worker, any working-buffer size, any source content up to MaxLen
\* bytes: either the source is compressed and the result decompressed, or the
\* source itself is decompressed
InitStream ==
    /\ tasks \in
         { << [inputPath |-> <<"in", 1>>, outputPath |-> <<"out", 1>>,
               compress |-> TRUE, level |-> Z_DEFAULT_COMPRESSION],
              [inputPath |-> <<"out", 1>>, outputPath |-> <<"out", 2>>,
               compress |-> FALSE, level |-> 0] >>,
           << [inputPath |-> <<"in", 1>>, outputPath |-> <<"out", 1>>,
               compress |-> FALSE, level |-> 0] >> }
    /\ numThreads = 1
    /\ bufSize \in BufSizes
    /\ writable = {<<"out", 1>>, <<"out", 2>>}
    /\ \E B \in SeqsUpTo(Byte, MaxLen) :
         fs = [p \in Paths |-> IF p = <<"in", 1>>
                                 THEN [exists |-> TRUE, data |-> B]
                                 ELSE NoFile]
    /\ InitCommon

SpecStream == InitStream /\ [][Next]_vars

\* the byte values the stream format gives a meaning to; any other value is
\* payload to deflate and an unknown block type to inflate
StreamBytes == {END, LIT, HDR}

\* one worker and one job, in either direction, with any working-buffer size
\* and any source of up to MaxLen bytes over StreamBytes
InitDrain ==
    /\ \E c \in BOOLEAN :
         tasks = << [inputPath |-> <<"in", 1>>, outputPath |-> <<"out", 1>>,
                     compress |-> c,
                     level |-> IF c THEN Z_DEFAULT_COMPRESSION ELSE 0] >>
    /\ numThreads = 1
    /\ bufSize \in BufSizes
    /\ writable = {<<"out", 1>>}
    /\ \E B \in SeqsUpTo(StreamBytes, MaxLen) :
         fs = [p \in Paths |-> IF p = <<"in", 1>>
                                 THEN [exists |-> TRUE, data |-> B]
                                 ELSE NoFile]
    /\ InitCommon

\* processFile on one stream, with a scheduler that lets a thread that can
\* run take its step
SpecStreamFair == InitDrain /\ [][Next]_vars /\ WF_vars(Next)

Spec == Init /\ [][Next]_vars

\* ------------------------------------------------------------ properties
EvIdx(k, name) == {i \in 1..Len(events[k]) : events[k][i].ev = name}

Jobs == 1..Len(tasks)

\* every spawned worker has left its loop
WorkersDone ==
    /\ mainpc # "spawn"
    /\ \A w \in 1..NumSpawned : pc[w] = "done"

\* C1: exactly-once claiming: for every task list and every numThreads >= 1,
\* no index is ever passed to processFile twice, and once all workers have
\* terminated every index has been passed to processFile exactly once, by
\* one worker.
ExactlyOnceClaiming ==
    /\ \A k \in Jobs : Cardinality(EvIdx(k, "call")) <= 1
    /\ (WorkersDone /\ numThreads >= 1) =>
           \A k \in Jobs : Cardinality(EvIdx(k, "call")) = 1

\* two workers have shared a two-job list, one job each, and have terminated
ExactlyOnceWitness ==
    /\ WorkersDone
    /\ numThreads = 2
    /\ Len(tasks) = 2
    /\ \A k \in Jobs : Cardinality(EvIdx(k, "call")) = 1
    /\ events[1][1].w # events[2][1].w

\* C8: join semantics: processFiles has returned only if every worker it
\* spawned has terminated; none is claiming or running a job.
JoinSemantics ==
    mainpc = "returned" =>
        /\ \A w \in 1..NumSpawned : pc[w] = "done"
        /\ \A w \in Threads : pc[w] \in {"idle", "done"}
        /\ taskMutex = NoOwner /\ mtx = NoOwner

\* processFiles has returned from a run of two workers that had work to do
JoinWitness ==
    /\ mainpc = "returned"
    /\ numThreads = 2
    /\ Len(tasks) = 2
    /\ \A k \in Jobs : EvIdx(k, "line") # {}

Writers == {w \in Threads : pc[w] \in {"write_head", "write_tail"}}

\* every line in the sink is whole: its text is directly followed by its own
\* end of line
SinkWhole ==
    \A i \in 1..Len(sink) :
        IF sink[i].part = "head"
        THEN i < Len(sink) =>
                /\ sink[i + 1].part = "tail"
                /\ sink[i + 1].w = sink[i].w
                /\ sink[i + 1].job = sink[i].job
        ELSE i > 1 /\ sink[i - 1].part = "head" /\ sink[i - 1].w = sink[i].w

\* C9: no torn diagnostic lines: at most one worker is writing a line, a
\* worker that is writing one (of any of the four kinds) holds mtx from the
\* first to the last character, and no line in the sink is interleaved with
\* another.
NoTornLines ==
    /\ Cardinality(Writers) <= 1
    /\ \A w \in Writers : mtx = w
    /\ SinkWhole
    /\ (Len(sink) > 0 /\ sink[Len(sink)].part = "head") =>
           \E w \in Writers : pc[w] = "write_tail" /\ sink[Len(sink)].w = w

\* a worker is in the middle of its line while another waits for mtx to
\* write its own
NoTornLinesWitness ==
    \E w, v \in Threads :
        /\ w # v
        /\ pc[w] = "write_tail"
        /\ pc[v] = "lock_log"
        /\ mtx = w

\* the codes by which deflate and inflate report an error (Z_BUF_ERROR only
\* says that no progress was possible and is not one)
ErrorCodes == {Z_DATA_ERROR, Z_STREAM_ERROR}

Has(k, name, a) == \E i \in EvIdx(k, name) : events[k][i].a = a

CodecReportedError(k) == \E i \in EvIdx(k, "transform") : events[k][i].b \in ErrorCodes

Failed(k) ==
    \/ Has(k, "open_in", "fail")
    \/ Has(k, "open_out", "fail")
    \/ CodecReportedError(k)

Succeeded(k) == Has(k, "line", "ok")

\* C2: failure isolation: whatever jobs fail (source or destination does not
\* open, or the codec reports an error), once the workers have terminated
\* every job of the batch has been claimed and run to one outcome, and the
\* number of success lines is the number of jobs minus the number of failed
\* jobs.
FailureIsolation ==
    (WorkersDone /\ numThreads >= 1) =>
        /\ \A k \in Jobs : Cardinality(EvIdx(k, "call")) = 1
        /\ \A k \in Jobs : Cardinality(EvIdx(k, "line")) = 1
        /\ Cardinality({k \in Jobs : Succeeded(k)})
             = Len(tasks) - Cardinality({k \in Jobs : Failed(k)})

\* C3: finish on end of input: a compress job whose session is ended (both
\* streams opened, any input length) has had deflate called with Z_FINISH at
\* least once before.
FinishOnEndOfInput ==
    \A k \in Jobs :
        (tasks[k].compress /\ EvIdx(k, "end") # {}) =>
            \E i \in EvIdx(k, "transform") : events[k][i].a = Z_FINISH

\* C4: round trip: after processFile has compressed B (at a level deflateInit
\* accepts) and processFile has decompressed the result, the second
\* destination holds exactly B.
RoundTrip ==
    (WorkersDone /\ ValidLevel(tasks[1].level)) =>
        /\ fs[tasks[2].outputPath].exists
        /\ fs[tasks[2].outputPath].data = fs[tasks[1].inputPath].data

\* C5: codec errors abort the job: after a call of deflate or inflate that
\* reported an error, the job reads no further chunk, calls the transform no
\* more and does not end with the success line.
CodecErrorsAbortJob ==
    \A k \in Jobs : \A i \in EvIdx(k, "transform") :
        events[k][i].b \in ErrorCodes =>
            \A j \in (i + 1)..Len(events[k]) :
                /\ ~(events[k][j].ev = "read" /\ events[k][j].a = "chunk")
                /\ events[k][j].ev # "transform"
                /\ ~(events[k][j].ev = "line" /\ events[k][j].a = "ok")

\* C6: empty input: a compress job on a zero-length source whose streams
\* open has, when its line is out, opened and closed a session, reported
\* success and left the minimal empty compressed stream, terminator
\* included, in the destination.
EmptyInputStream ==
    \A k \in Jobs :
        ( /\ tasks[k].compress
          /\ ValidLevel(tasks[k].level)
          /\ Has(k, "open_out", "ok")
          /\ fs[tasks[k].inputPath].data = <<>>
          /\ EvIdx(k, "line") # {} ) =>
            /\ Succeeded(k)
            /\ EvIdx(k, "init") # {} /\ EvIdx(k, "end") # {}
            /\ fs[tasks[k].outputPath].data = <<HDR, END, 0>>

InvalidConfig ==
    \/ numThreads <= 0
    \/ \E k \in Jobs : tasks[k].compress /\ ~ValidLevel(tasks[k].level)

\* C7: configuration errors stop the pool before dispatch: with a
\* numThreads <= 0 or a compression level deflateInit rejects, no worker is
\* ever started, no job is claimed, and the invocation has reported an error
\* when it returns.
ConfigErrorsStopPool ==
    InvalidConfig =>
        /\ \A w \in Threads : pc[w] = "idle"
        /\ currentTask = 0
        /\ \A k \in Jobs : events[k] = <<>>
        /\ mainpc = "returned" =>
              \E i \in 1..Len(sink) : sink[i].kind = "config_err"

BetweenJobs(w) == pc[w] \in {"lock_task", "check", "claim", "done"}

RanBy(w) == {k \in Jobs : \E i \in EvIdx(k, "call") : events[k][i].w = w}

\* C10: one diagnostic line per job: no job has two lines; a worker that is
\* between jobs has emitted exactly one line for every job it ran, the
\* line being the last thing done for the job (so after its last codec
\* call); and every line names the source or the destination of its job.
OneLinePerJob ==
    /\ \A k \in Jobs : Cardinality(EvIdx(k, "line")) <= 1
    /\ \A k \in Jobs : \A i \in EvIdx(k, "line") : i = Len(events[k])
    /\ \A w \in Threads : \A k \in RanBy(w) :
          (BetweenJobs(w) /\ ~(pc[w] = "claim" /\ loc[w].taskIndex + 1 = k)) =>
              Cardinality(EvIdx(k, "line")) = 1
    /\ \A i \in 1..Len(sink) :
          \E j \in 1..Len(sink[i].id) :
              sink[i].id[j] \in {tasks[sink[i].job + 1].inputPath,
                                 tasks[sink[i].job + 1].outputPath}

\* what holds of the cursor in every state
CursorInv ==
    /\ currentTask \in 0..Len(tasks)
    /\ \A w \in Threads : pc[w] \in {"check", "claim"} => taskMutex = w
    /\ \A k \in Jobs : events[k] # <<>> <=> k <= currentTask

\* what holds of every step: the cursor moves only up, by one, in the hands
\* of the owner of taskMutex, and the index claimed is the cursor's old value
CursorStep ==
    /\ currentTask' >= currentTask
    /\ currentTask' # currentTask =>
          /\ currentTask' = currentTask + 1
          /\ \E w \in Threads : taskMutex = w /\ pc[w] = "claim"
                                  /\ loc[w].taskIndex = currentTask
    /\ \A k \in Jobs :
          (events[k] = <<>> /\ events'[k] # <<>>) =>
              (k - 1 = currentTask /\ currentTask' = k)

\* C11: cursor discipline: currentTask is read and written only by the owner
\* of taskMutex, never decreases, stays within 0..len(tasks), and the
\* indices are claimed in the order 0, 1, 2, ...
CursorDiscipline == []CursorInv /\ [][CursorStep]_vars

\* the list is used up, a worker reads the cursor under the lock and finds
\* so, while the other worker still runs the last job
CursorWitness ==
    \E w, v \in Threads :
        /\ currentTask = Len(tasks) /\ Len(tasks) = 2
        /\ pc[w] = "check" /\ taskMutex = w
        /\ pc[v] = "transform" /\ loc[v].taskIndex = 1

CodecWork == {"open_in", "open_out", "init", "read", "transform", "end"}

\* C12: codec work is done outside every lock: a worker that opens, reads,
\* transforms or writes holds neither taskMutex nor mtx; taskMutex is held
\* only inside the claim section and mtx only while a line is written, so a
\* worker in stream I/O keeps no other worker from claiming or logging.
CodecOutsideLocks ==
    /\ \A w \in Threads : pc[w] \in CodecWork => (taskMutex # w /\ mtx # w)
    /\ \A w \in Threads : taskMutex = w => pc[w] \in {"check", "claim"}
    /\ \A w \in Threads : mtx = w => pc[w] \in {"write_head", "write_tail"}

\* one worker is in the transform while the other claims a job and nobody
\* holds mtx
CodecOutsideLocksWitness ==
    \E w, v \in Threads :
        /\ pc[w] = "transform"
        /\ pc[v] = "claim" /\ taskMutex = v
        /\ mtx = NoOwner

\* C13: chunk-size independence: whatever the working-buffer size (one that
\* divides the input length or one that does not), the compressed output
\* decompresses to the original bytes, so any two sizes give outputs that
\* decompress to the same original.
ChunkSizeIndependence ==
    (WorkersDone /\ Len(tasks) = 2 /\ tasks[1].compress) =>
        /\ fs[tasks[2].outputPath].exists
        /\ fs[tasks[2].outputPath].data = fs[tasks[1].inputPath].data

\* C14: every job that main's compress and decompress paths build and hand
\* to processFiles has a destination different from its source, so no job
\* opens its own source for truncating write.
DistinctStreams ==
    \A k \in Jobs :
        Has(k, "open_out", "ok") => tasks[k].inputPath # tasks[k].outputPath

\* the worker's z_stream has a state allocated by deflateInit / inflateInit
SessionOpen(w) == loc[w].zs.mode # "null"

\* C15: session lifetime: everything done for a job, its session included,
\* is done by the one worker that claimed it; a job has at most one session
\* and every call of the transform lies between its init and its end; and a
\* worker that has returned from processFile, by whichever return, has no
\* session open when it goes to claim its next job.
SessionLifetime ==
    /\ \A k \in Jobs : \A i, j \in 1..Len(events[k]) : events[k][i].w = events[k][j].w
    /\ \A k \in Jobs : Cardinality(EvIdx(k, "init")) <= 1
    /\ \A k \in Jobs : \A i \in EvIdx(k, "transform") :
          /\ \E j \in EvIdx(k, "init") : j < i
          /\ \A e \in EvIdx(k, "end") : i < e
    /\ \A w \in Threads : SessionOpen(w) => pc[w] \in {"read", "transform", "end"}
    /\ \A w \in Threads : (BetweenJobs(w) \/ pc[w] = "idle") => ~SessionOpen(w)

\* a worker that opened, used and ended a session for job 0 is claiming
\* job 1
SessionLifetimeWitness ==
    \E w \in Threads :
        /\ pc[w] = "claim" /\ loc[w].taskIndex = 1
        /\ \E i \in EvIdx(1, "init") : events[1][i].w = w /\ events[1][i].b = Z_OK
        /\ EvIdx(1, "transform") # {} /\ EvIdx(1, "end") # {}

\* the worker's last step for its job was a call of the transform
AfterTransform(w) ==
    /\ pc[w] \in {"read", "transform"}
    /\ events[loc[w].taskIndex + 1] # <<>>
    /\ events[loc[w].taskIndex + 1][Len(events[loc[w].taskIndex + 1])].ev = "transform"

EndsWith(s, t) ==
    Len(t) <= Len(s) /\ SubSeq(s, Len(s) - Len(t) + 1, Len(s)) = t

\* after every call of the transform the bytes it left in outBuffer are at
\* the end of the destination, in order
OutputWritten ==
    \A w \in Threads :
        AfterTransform(w) => EndsWith(fs[Task(w).outputPath].data, loc[w].outBuffer)

\* the drain loop is left only after a call that did not fill outBuffer
LeftOnPartialBuffer ==
    \A w \in Threads :
        (AfterTransform(w) /\ pc[w] = "read") => Len(loc[w].outBuffer) < bufSize

\* when the drain loop is left, nothing of the chunk is unconsumed
ChunkConsumed ==
    \A w \in Threads :
        (AfterTransform(w) /\ pc[w] = "read") => loc[w].zs.next_in = <<>>

\* C16: the drain loop loses no bytes: all the transform puts into outBuffer
\* is written to the destination, in order, before the buffer is reused; the
\* loop is left only after a call that did not fill the buffer; and at that
\* moment the whole chunk has been consumed.
DrainLosesNoBytes == OutputWritten /\ LeftOnPartialBuffer /\ ChunkConsumed

\* the drain loop goes round again only after a call that filled outBuffer,
\* so a call that gives no output ends it
DrainStep ==
    \A w \in Threads :
        ( /\ pc[w] = "transform" /\ pc'[w] = "transform"
          /\ events'[loc[w].taskIndex + 1] # events[loc[w].taskIndex + 1] ) =>
            (Len(loc'[w].outBuffer) = bufSize /\ Len(loc'[w].outBuffer) > 0)

\* C17: the drain loop terminates: it is repeated only after a call that
\* filled the output buffer, so a call that gives no output ends it; and the
\* worker's one processFile call, which cannot return from inside a drain
\* loop, returns and the worker finishes, in both directions and also after
\* inflate has reported Z_DATA_ERROR or Z_STREAM_END.
DrainLoopTerminates ==
    /\ [][DrainStep]_vars
    /\ <>WorkersDone

\* a decompress job has returned although inflate was called again after it
\* had reported the end of the stream or a data error
DrainLoopWitness ==
    /\ mainpc = "returned"
    /\ \E k \in Jobs : \E i, j \in EvIdx(k, "transform") :
          /\ i < j
          /\ events[k][i].b \in {Z_STREAM_END, Z_DATA_ERROR}
          /\ events[k][j].b = events[k][i].b
          /\ EvIdx(k, "line") # {}

\* the workers that have been spawned and have not left their loop
Live == {w \in Threads : pc[w] \notin {"idle", "done"}}

\* the worker waits for a mutex another thread holds
Blocked(w) ==
    \/ pc[w] = "lock_task" /\ taskMutex # NoOwner
    \/ pc[w] = "lock_log" /\ mtx # NoOwner

NoDoubleLock == \A w \in Threads : ~(taskMutex = w /\ mtx = w)

SomeLiveWorkerRuns == Live # {} => \E w \in Live : ~Blocked(w)

\* a worker leaves its loop only on finding the cursor at the end of the
\* list, changes neither the cursor nor the diagnostics in doing so, and
\* stays out
ExhaustedStep ==
    \A w \in Threads :
        /\ (pc[w] # "done" /\ pc'[w] = "done") =>
              /\ pc[w] = "check"
              /\ currentTask = Len(tasks)
              /\ currentTask' = currentTask
              /\ sink' = sink
              /\ events' = events
              /\ taskMutex = w /\ taskMutex' = NoOwner
        /\ pc[w] = "done" => pc'[w] = "done"

\* C18: pool termination and deadlock freedom: under fair scheduling, for
\* every job list and every numThreads, every worker leaves its loop and
\* processFiles returns; no worker holds taskMutex and mtx together; no
\* state has every live worker blocked on a lock; and a worker that finds
\* the cursor at the end of the list terminates without changing the cursor
\* and without a diagnostic line.
PoolTerminates ==
    /\ []NoDoubleLock
    /\ []SomeLiveWorkerRuns
    /\ [][ExhaustedStep]_vars
    /\ <>(mainpc = "returned" /\ WorkersDone)

\* processFiles has returned from a run with more workers than jobs: one
\* worker found the list exhausted on its first look and ran no job, and
\* every job has its line
PoolTerminatesWitness ==
    /\ mainpc = "returned"
    /\ Len(tasks) >= 1
    /\ NumSpawned > Len(tasks)
    /\ \E w \in 1..NumSpawned :
          /\ pc[w] = "done"
          /\ \A k \in Jobs : \A i \in 1..Len(events[k]) : events[k][i].w # w
    /\ \A k \in Jobs : EvIdx(k, "line") # {}

\* C19: success implies a complete stream: a decompress job has the success
\* line only if inflate reported Z_STREAM_END for its input, so a truncated
\* or otherwise incomplete source never ends with the success line.
SuccessImpliesCompleteStream ==
    \A k \in Jobs :
        (~tasks[k].compress /\ Succeeded(k)) =>
            \E i \in EvIdx(k, "transform") : events[k][i].b = Z_STREAM_END

\* nothing of the named kinds has been done for job k
NoneOf(k, names) == \A i \in 1..Len(events[k]) : events[k][i].ev \notin names

\* every line emitted for job k is of the given kind, and there is one once
\* the workers have terminated
OnlyLine(k, kind) ==
    /\ \A i \in EvIdx(k, "line") : events[k][i].a = kind
    /\ WorkersDone => EvIdx(k, "line") # {}

\* C20: an open failure leaves the rest untouched: when a job's source does
\* not open, processFile emits the input-open error line and returns without
\* opening, creating or truncating the destination and without a codec
\* session; when the destination does not open, it returns without a codec
\* session and without reading the source.
OpenFailureFrame ==
    \A k \in Jobs :
        /\ Has(k, "open_in", "fail") =>
              /\ NoneOf(k, {"open_out", "init", "read", "transform", "end"})
              /\ fs[tasks[k].outputPath] = NoFile
              /\ OnlyLine(k, "in_err")
        /\ Has(k, "open_out", "fail") =>
              /\ NoneOf(k, {"init", "read", "transform", "end"})
              /\ fs[tasks[k].outputPath] = NoFile
              /\ OnlyLine(k, "out_err")

\* the pool has finished a batch in which one job's source did not open and
\* another's destination did not, each with its own error line
OpenFailureWitness ==
    /\ WorkersDone
    /\ \E k \in Jobs : Has(k, "open_in", "fail") /\ Has(k, "line", "in_err")
    /\ \E k \in Jobs : Has(k, "open_out", "fail") /\ Has(k, "line", "out_err")

====
